---- MODULE Spec2Model ----
(***************************************************************************)
(* Model of watcher/watcher.py: the nginx access-log watcher that detects  *)
(* pool failover and elevated 5xx error rate and posts alerts to Slack,    *)
(* gated by a maintenance marker file and per-class cooldown timers.       *)
(***************************************************************************)
EXTENDS Integers, Sequences, FiniteSets, TLC

\* ====== CONFIG (watcher.py lines 11-16) ======
ACTIVE_POOL == "blue"
ALERT_COOLDOWN_SEC == 2
\* values the environment gives WINDOW_SIZE and ERROR_RATE_THRESHOLD
EnvWindowSize == 4
EnvErrorRateThreshold == 25

\* ====== BOUNDS ======
\* the clock readings of datetime.utcnow() range over 0..MaxClock
MaxClock == 2

\* pools and upstream status codes that occur in the log lines
Pools == {"blue", "green"}
Statuses == {200, 500}

\* ====== binary64 arithmetic (Python float) ======
\* A non-negative double is [exp |-> e, mant |-> <<a, b, c>>]: the 53-bit
\* significand is a * 2^36 + b * 2^18 + c with a < 2^17 and b, c < 2^18,
\* and the value is significand * 2^(e - 52).  A non-zero double is
\* normalised (a >= 2^16); zero has significand 0.
RECURSIVE Pow2(_)
Pow2(n) == IF n = 0 THEN 1 ELSE 2 * Pow2(n - 1)

Limb == Pow2(18)
TopOne == Pow2(16)

FloatZero == [exp |-> 0, mant |-> <<0, 0, 0>>]

\* round-to-nearest-even of a 53-bit significand given the discarded part:
\* up = the discarded part is above one half of the last place, tie = it is
\* exactly one half
RoundNearestEven(mant, exp, up, tie) ==
    IF up \/ (tie /\ mant[3] % 2 = 1)
    THEN LET c == mant[3] + 1
             b == mant[2] + (c \div Limb)
             a == mant[1] + (b \div Limb)
         IN  IF a = 2 * TopOne
             THEN [exp |-> exp + 1, mant |-> <<TopOne, 0, 0>>]
             ELSE [exp |-> exp, mant |-> <<a, b % Limb, c % Limb>>]
    ELSE [exp |-> exp, mant |-> mant]

\* float(num) / float(den), Python's true division of two small ints
\* (0 <= num, 0 < den), correctly rounded
FloatDiv(num, den) ==
    IF num = 0 THEN FloatZero
    ELSE LET down == CHOOSE s \in 0..12 :
                        num * Pow2(s) >= den /\ (s = 0 \/ num * Pow2(s - 1) < den)
             n == num * Pow2(down)
             up == CHOOSE s \in 0..12 : den * Pow2(s) <= n /\ n < den * Pow2(s + 1)
             d == den * Pow2(up)
             \* d <= n < 2d: the quotient lies in [1, 2)
             a == (n * TopOne) \div d
             r1 == (n * TopOne) % d
             b == (r1 * Limb) \div d
             r2 == (r1 * Limb) % d
             c == (r2 * Limb) \div d
             r3 == (r2 * Limb) % d
         IN  RoundNearestEven(<<a, b, c>>, up - down, 2 * r3 > d, 2 * r3 = d)

\* x * float(k) for a double x >= 0 and a small positive integer k,
\* correctly rounded
FloatMulInt(x, k) ==
    IF x.mant = <<0, 0, 0>> THEN FloatZero
    ELSE LET t3 == x.mant[3] * k
             t2 == x.mant[2] * k + (t3 \div Limb)
             t1 == x.mant[1] * k + (t2 \div Limb)
             lo2 == t2 % Limb
             lo3 == t3 % Limb
             \* the product is t1 * 2^36 + lo2 * 2^18 + lo3; drop its last s bits
             s == CHOOSE i \in 0..12 : TopOne * Pow2(i) <= t1 /\ t1 < 2 * TopOne * Pow2(i)
             cut == Pow2(s)
             keep == Limb \div cut
             a == t1 \div cut
             b == (t1 % cut) * keep + (lo2 \div cut)
             c == (lo2 % cut) * keep + (lo3 \div cut)
             dropped == lo3 % cut
         IN  RoundNearestEven(<<a, b, c>>, x.exp + s,
                              2 * dropped > cut, s > 0 /\ 2 * dropped = cut)

\* float(n) for a small non-negative integer n (exact)
Float(n) ==
    IF n = 0 THEN FloatZero
    ELSE LET e == CHOOSE i \in 0..16 : Pow2(i) <= n /\ n < Pow2(i + 1)
         IN  [exp |-> e, mant |-> <<n * Pow2(16 - e), 0, 0>>]

\* x > y for doubles x, y >= 0
FloatGreater(x, y) ==
    IF x.mant = <<0, 0, 0>> THEN FALSE
    ELSE IF y.mant = <<0, 0, 0>> THEN TRUE
    ELSE IF x.exp # y.exp THEN x.exp > y.exp
    ELSE IF x.mant[1] # y.mant[1] THEN x.mant[1] > y.mant[1]
    ELSE IF x.mant[2] # y.mant[2] THEN x.mant[2] > y.mant[2]
    ELSE x.mant[3] > y.mant[3]

\* ====== STATE (watcher.py lines 22-28 and the locals of main) ======
VARIABLES
    WINDOW_SIZE,              \* line 13, read from the environment at start
    ERROR_RATE_THRESHOLD,     \* line 12, percent
    request_window,           \* deque(maxlen=WINDOW_SIZE) of status codes
    last_failover_pool,
    last_failover_alert,
    last_error_rate_alert,
    error_rate_breached,
    maintenance_mode_prev,
    maintenance_file,         \* os.path.exists(MAINTENANCE_FILE)
    pc,                       \* position of main
    line,                     \* the line being processed, as LOG_REGEX sees it
    maintenance_mode_current,
    now,                      \* latest reading of datetime.utcnow()
    error_count,
    error_rate,
    attempted,                \* alerts passed to send_slack_alert by the latest step of main
    sent,                     \* requests.post calls made by the latest step of main
    tried,                    \* per cooldown class, the title of the latest alert attempted
    slack,                    \* per cooldown class, what Slack has received
    pushed                    \* the status codes appended so far (recorded by SpecWindow only)

config == <<WINDOW_SIZE, ERROR_RATE_THRESHOLD>>
detection == <<request_window, last_failover_pool, last_failover_alert,
               last_error_rate_alert, error_rate_breached, maintenance_mode_prev>>
locals == <<pc, line, maintenance_mode_current, now, error_count, error_rate>>
output == <<attempted, sent, tried, slack>>
vars == <<config, detection, maintenance_file, locals, output, pushed>>

\* datetime.min: so far in the past that every cooldown has elapsed
DatetimeMin == 0 - ALERT_COOLDOWN_SEC

\* what LOG_REGEX.search gives for a line
NoMatch == [matched |-> FALSE, pool |-> "", upstream_status |-> 0]
LOG_REGEX == {NoMatch} \cup
    {[matched |-> TRUE, pool |-> p, upstream_status |-> st] : p \in Pools, st \in Statuses}

\* the keyword arguments of one send_slack_alert call
Alert(title, message, alert_type, pool, rate) ==
    [title |-> title, message |-> message, alert_type |-> alert_type,
     pool |-> pool, error_rate |-> rate]

StartupAlert == Alert("blue-green-app-BG Alert", <<"Alert Watcher Started">>, "info", "None", <<>>)
MaintenanceAlert(current) ==
    Alert("Maintenance Mode", <<IF current THEN "Enabled" ELSE "Disabled">>, "info", "None", <<>>)
FailoverAlert(old, new) == Alert("FAILOVER DETECTED", <<old, new>>, "failover", new, <<>>)
FailoverRecoveryAlert == Alert("Failover Recovery", <<ACTIVE_POOL>>, "info", ACTIVE_POOL, <<>>)
HighErrorRateAlert(rate) ==
    Alert("High Error Rate Detected", <<>>, "error_rate", ACTIVE_POOL, <<rate>>)
ErrorRateRecoveredAlert(rate) ==
    Alert("Error Rate Recovered", <<>>, "info", ACTIVE_POOL, <<rate>>)

\* the cooldown class of an alert: the timer that gates it
CooldownClass(title) ==
    IF title \in {"FAILOVER DETECTED", "Failover Recovery"} THEN "failover"
    ELSE IF title \in {"High Error Rate Detected", "Error Rate Recovered"} THEN "error_rate"
    ELSE "none"

\* what Slack has received of one cooldown class: the latest post (its title,
\* its pool and the `now` of the iteration that made it) and the number of
\* posts
NoPost == [title |-> "", pool |-> "", at |-> DatetimeMin, n |-> 0]

Record(posts, alert) ==
    IF CooldownClass(alert.title) = "none" THEN posts
    ELSE [posts EXCEPT ![CooldownClass(alert.title)] =
             [title |-> alert.title, pool |-> alert.pool, at |-> now, n |-> @.n + 1]]

Tried(titles, alert) ==
    IF CooldownClass(alert.title) = "none" THEN titles
    ELSE [titles EXCEPT ![CooldownClass(alert.title)] = alert.title]

\* mutant: the maintenance check is missing
send_slack_alert_ungated(alert) ==
    /\ attempted' = <<alert>>
    /\ tried' = Tried(tried, alert)
    /\ \E ok \in BOOLEAN : sent' = <<[alert |-> alert, ok |-> ok]>>
    /\ slack' = Record(slack, alert)

\* mutant: a failed POST is sent once more
send_slack_alert_retry(alert) ==
    /\ attempted' = <<alert>>
    /\ tried' = Tried(tried, alert)
    /\ IF maintenance_file
       THEN /\ sent' = <<>>
            /\ slack' = slack
       ELSE /\ \E ok \in BOOLEAN :
                  sent' = IF ok THEN <<[alert |-> alert, ok |-> TRUE]>>
                          ELSE <<[alert |-> alert, ok |-> FALSE], [alert |-> alert, ok |-> TRUE]>>
            /\ slack' = Record(slack, alert)

\* send_slack_alert: dropped when the marker exists, otherwise one POST,
\* whose failure is logged and swallowed
send_slack_alert(alert) ==
    /\ attempted' = <<alert>>
    /\ tried' = Tried(tried, alert)
    /\ IF maintenance_file
       THEN /\ sent' = <<>>
            /\ slack' = slack
       ELSE /\ \E ok \in BOOLEAN : sent' = <<[alert |-> alert, ok |-> ok]>>
            /\ slack' = Record(slack, alert)

NoAlert == attempted' = <<>> /\ sent' = <<>> /\ tried' = tried /\ slack' = slack

\* the alerts a step decided on: none or one
Attempt(alerts) == IF alerts = <<>> THEN NoAlert ELSE send_slack_alert(alerts[1])

\* mutant: a full deque drops the entry next to the new one
DequeAppend_newest(window, maxlen, x) ==
    IF Len(window) < maxlen THEN Append(window, x)
    ELSE Append(SubSeq(window, 1, Len(window) - 1), x)

\* deque.append on a deque with maxlen: the oldest entry falls out when full
DequeAppend(window, maxlen, x) ==
    IF Len(window) < maxlen THEN Append(window, x)
    ELSE Append(Tail(window), x)

\* mutant: the cooldown one second short
CooldownElapsed_short(t, last) == t - last >= ALERT_COOLDOWN_SEC - 1

\* (now - last).total_seconds() >= ALERT_COOLDOWN_SEC
CooldownElapsed(t, last) == t - last >= ALERT_COOLDOWN_SEC

\* sum(1 for s in request_window if 500 <= s <= 599)
ErrorCount(window) == Cardinality({i \in 1..Len(window) : 500 <= window[i] /\ window[i] <= 599})

\* (error_count / WINDOW_SIZE) * 100
ErrorRate(count, size) == FloatMulInt(FloatDiv(count, size), 100)

\* mutant: the remembered pool advances only when the alert fires
FailoverCheck_stale(pool, last_pool, last_alert, t) ==
    IF pool # last_pool
    THEN IF CooldownElapsed(t, last_alert)
         THEN [alerts |-> <<FailoverAlert(last_pool, pool)>>,
               last_failover_alert |-> t, last_failover_pool |-> pool]
         ELSE [alerts |-> <<>>,
               last_failover_alert |-> last_alert, last_failover_pool |-> last_pool]
    ELSE [alerts |-> <<>>,
          last_failover_alert |-> last_alert, last_failover_pool |-> last_pool]

\* mutant: the alert is built after the remembered pool was updated
FailoverCheck_renamed(pool, last_pool, last_alert, t) ==
    IF pool # last_pool
    THEN IF CooldownElapsed(t, last_alert)
         THEN [alerts |-> <<FailoverAlert(pool, pool)>>,
               last_failover_alert |-> t, last_failover_pool |-> pool]
         ELSE [alerts |-> <<>>,
               last_failover_alert |-> last_alert, last_failover_pool |-> pool]
    ELSE [alerts |-> <<>>,
          last_failover_alert |-> last_alert, last_failover_pool |-> last_pool]

\* lines 152-176 as a function of the observed pool, the tracker and the
\* clock reading: the alert decided on and the tracker afterwards
FailoverCheck(pool, last_pool, last_alert, t) ==
    IF pool # last_pool
    THEN IF CooldownElapsed(t, last_alert)
         THEN [alerts |-> <<FailoverAlert(last_pool, pool)>>,
               last_failover_alert |-> t, last_failover_pool |-> pool]
         ELSE [alerts |-> <<>>,
               last_failover_alert |-> last_alert, last_failover_pool |-> pool]
    ELSE IF pool = ACTIVE_POOL /\ last_pool # ACTIVE_POOL
    THEN IF CooldownElapsed(t, last_alert)
         THEN [alerts |-> <<FailoverRecoveryAlert>>,
               last_failover_alert |-> t, last_failover_pool |-> ACTIVE_POOL]
         ELSE [alerts |-> <<>>,
               last_failover_alert |-> last_alert, last_failover_pool |-> ACTIVE_POOL]
    ELSE [alerts |-> <<>>,
          last_failover_alert |-> last_alert, last_failover_pool |-> last_pool]

\* mutant: the breach branch does not look at the latch
ErrorRateCheck_relatch(rate, threshold, breached, last_alert, t) ==
    IF FloatGreater(rate, Float(threshold))
    THEN IF CooldownElapsed(t, last_alert)
         THEN [alerts |-> <<HighErrorRateAlert(rate)>>,
               last_error_rate_alert |-> t, error_rate_breached |-> TRUE]
         ELSE [alerts |-> <<>>,
               last_error_rate_alert |-> last_alert, error_rate_breached |-> breached]
    ELSE IF breached /\ CooldownElapsed(t, last_alert)
    THEN [alerts |-> <<ErrorRateRecoveredAlert(rate)>>,
          last_error_rate_alert |-> t, error_rate_breached |-> FALSE]
    ELSE [alerts |-> <<>>,
          last_error_rate_alert |-> last_alert, error_rate_breached |-> breached]

\* mutant: a rate equal to the threshold counts as a breach
ErrorRateCheck_atleast(rate, threshold, breached, last_alert, t) ==
    IF ~FloatGreater(Float(threshold), rate)
    THEN IF ~breached /\ CooldownElapsed(t, last_alert)
         THEN [alerts |-> <<HighErrorRateAlert(rate)>>,
               last_error_rate_alert |-> t, error_rate_breached |-> TRUE]
         ELSE [alerts |-> <<>>,
               last_error_rate_alert |-> last_alert, error_rate_breached |-> breached]
    ELSE IF breached /\ CooldownElapsed(t, last_alert)
    THEN [alerts |-> <<ErrorRateRecoveredAlert(rate)>>,
          last_error_rate_alert |-> t, error_rate_breached |-> FALSE]
    ELSE [alerts |-> <<>>,
          last_error_rate_alert |-> last_alert, error_rate_breached |-> breached]

\* mutant: recovery needs the rate strictly below the threshold
ErrorRateCheck_below(rate, threshold, breached, last_alert, t) ==
    IF FloatGreater(rate, Float(threshold))
    THEN IF ~breached /\ CooldownElapsed(t, last_alert)
         THEN [alerts |-> <<HighErrorRateAlert(rate)>>,
               last_error_rate_alert |-> t, error_rate_breached |-> TRUE]
         ELSE [alerts |-> <<>>,
               last_error_rate_alert |-> last_alert, error_rate_breached |-> breached]
    ELSE IF FloatGreater(Float(threshold), rate) /\ breached /\ CooldownElapsed(t, last_alert)
    THEN [alerts |-> <<ErrorRateRecoveredAlert(rate)>>,
          last_error_rate_alert |-> t, error_rate_breached |-> FALSE]
    ELSE [alerts |-> <<>>,
          last_error_rate_alert |-> last_alert, error_rate_breached |-> breached]

\* mutant: the recovery branch does not wait for the cooldown
ErrorRateCheck_eager(rate, threshold, breached, last_alert, t) ==
    IF FloatGreater(rate, Float(threshold))
    THEN IF ~breached /\ CooldownElapsed(t, last_alert)
         THEN [alerts |-> <<HighErrorRateAlert(rate)>>,
               last_error_rate_alert |-> t, error_rate_breached |-> TRUE]
         ELSE [alerts |-> <<>>,
               last_error_rate_alert |-> last_alert, error_rate_breached |-> breached]
    ELSE IF breached
    THEN [alerts |-> <<ErrorRateRecoveredAlert(rate)>>,
          last_error_rate_alert |-> t, error_rate_breached |-> FALSE]
    ELSE [alerts |-> <<>>,
          last_error_rate_alert |-> last_alert, error_rate_breached |-> breached]

\* mutant: the latch follows the rate even when the cooldown blocks the alert
ErrorRateCheck_latchfirst(rate, threshold, breached, last_alert, t) ==
    IF FloatGreater(rate, Float(threshold))
    THEN IF ~breached /\ CooldownElapsed(t, last_alert)
         THEN [alerts |-> <<HighErrorRateAlert(rate)>>,
               last_error_rate_alert |-> t, error_rate_breached |-> TRUE]
         ELSE [alerts |-> <<>>,
               last_error_rate_alert |-> last_alert, error_rate_breached |-> TRUE]
    ELSE IF breached /\ CooldownElapsed(t, last_alert)
    THEN [alerts |-> <<ErrorRateRecoveredAlert(rate)>>,
          last_error_rate_alert |-> t, error_rate_breached |-> FALSE]
    ELSE [alerts |-> <<>>,
          last_error_rate_alert |-> last_alert, error_rate_breached |-> FALSE]

\* lines 185-207 as a function of the rate just computed, the threshold, the
\* latch, the timer and the clock reading
ErrorRateCheck(rate, threshold, breached, last_alert, t) ==
    IF FloatGreater(rate, Float(threshold))
    THEN IF ~breached /\ CooldownElapsed(t, last_alert)
         THEN [alerts |-> <<HighErrorRateAlert(rate)>>,
               last_error_rate_alert |-> t, error_rate_breached |-> TRUE]
         ELSE [alerts |-> <<>>,
               last_error_rate_alert |-> last_alert, error_rate_breached |-> breached]
    ELSE IF breached /\ CooldownElapsed(t, last_alert)
    THEN [alerts |-> <<ErrorRateRecoveredAlert(rate)>>,
          last_error_rate_alert |-> t, error_rate_breached |-> FALSE]
    ELSE [alerts |-> <<>>,
          last_error_rate_alert |-> last_alert, error_rate_breached |-> breached]

\* the module-level state of lines 22-28 and the not yet assigned locals
InitState ==
    /\ last_failover_pool = ACTIVE_POOL
    /\ last_failover_alert = DatetimeMin
    /\ last_error_rate_alert = DatetimeMin
    /\ error_rate_breached = FALSE
    /\ maintenance_mode_prev = FALSE
    /\ maintenance_mode_current = FALSE
    /\ now = 0
    /\ error_count = 0
    /\ error_rate = FloatZero
    /\ attempted = <<>>
    /\ sent = <<>>
    /\ tried = [failover |-> "", error_rate |-> ""]
    /\ slack = [failover |-> NoPost, error_rate |-> NoPost]
    /\ pushed = <<>>

Init ==
    /\ WINDOW_SIZE = EnvWindowSize
    /\ ERROR_RATE_THRESHOLD = EnvErrorRateThreshold
    /\ maintenance_file \in BOOLEAN
    /\ pc = "start"
    /\ line = NoMatch
    /\ request_window = <<>>
    /\ InitState

\* lines 124-129: the startup alert
Startup ==
    /\ pc = "start"
    /\ send_slack_alert(StartupAlert)
    /\ pc' = "tail"
    /\ UNCHANGED <<config, detection, maintenance_file, line,
                   maintenance_mode_current, now, error_count, error_rate, pushed>>

\* lines 132-134: a line has arrived and the marker is probed; what the line
\* holds is not looked at before line 142
ProbeMaintenance ==
    /\ pc = "tail"
    /\ maintenance_mode_current' = maintenance_file
    /\ NoAlert
    /\ pc' = "maintenance"
    /\ UNCHANGED <<config, detection, maintenance_file, line, now, error_count, error_rate,
                   pushed>>

\* mutant: the `continue` of an unmatched line is missing
MaintenanceMode_nocontinue ==
    /\ pc = "maintenance"
    /\ IF maintenance_mode_current # maintenance_mode_prev
       THEN /\ send_slack_alert(MaintenanceAlert(maintenance_mode_current))
            /\ maintenance_mode_prev' = maintenance_mode_current
       ELSE /\ NoAlert
            /\ UNCHANGED maintenance_mode_prev
    /\ line' \in LOG_REGEX
    /\ request_window' = DequeAppend(request_window, WINDOW_SIZE, line'.upstream_status)
    /\ now' \in now..MaxClock
    /\ pc' = "failover"
    /\ UNCHANGED <<config, last_failover_pool, last_failover_alert, last_error_rate_alert,
                   error_rate_breached, maintenance_file, maintenance_mode_current,
                   error_count, error_rate, pushed>>

\* mutant: only the change to "present" is announced
MaintenanceMode_enable_only ==
    /\ pc = "maintenance"
    /\ IF maintenance_mode_current # maintenance_mode_prev
       THEN /\ IF maintenance_mode_current
               THEN send_slack_alert(MaintenanceAlert(maintenance_mode_current))
               ELSE NoAlert
            /\ maintenance_mode_prev' = maintenance_mode_current
       ELSE /\ NoAlert
            /\ UNCHANGED maintenance_mode_prev
    /\ line' \in LOG_REGEX
    /\ IF ~line'.matched
       THEN /\ pc' = "tail"
            /\ UNCHANGED <<request_window, now>>
       ELSE /\ request_window' = DequeAppend(request_window, WINDOW_SIZE, line'.upstream_status)
            /\ now' \in now..MaxClock
            /\ pc' = "failover"
    /\ UNCHANGED <<config, last_failover_pool, last_failover_alert, last_error_rate_alert,
                   error_rate_breached, maintenance_file, maintenance_mode_current,
                   error_count, error_rate, pushed>>

\* lines 135-149: the toggle alert, then the match, the push and the clock
MaintenanceMode ==
    /\ pc = "maintenance"
    /\ IF maintenance_mode_current # maintenance_mode_prev
       THEN /\ send_slack_alert(MaintenanceAlert(maintenance_mode_current))
            /\ maintenance_mode_prev' = maintenance_mode_current
       ELSE /\ NoAlert
            /\ UNCHANGED maintenance_mode_prev
    /\ line' \in LOG_REGEX
    /\ IF ~line'.matched
       THEN /\ pc' = "tail"
            /\ UNCHANGED <<request_window, now>>
       ELSE /\ request_window' = DequeAppend(request_window, WINDOW_SIZE, line'.upstream_status)
            /\ now' \in now..MaxClock
            /\ pc' = "failover"
    /\ UNCHANGED <<config, last_failover_pool, last_failover_alert, last_error_rate_alert,
                   error_rate_breached, maintenance_file, maintenance_mode_current,
                   error_count, error_rate, pushed>>

\* mutant: one cooldown timer shared by both classes
FailoverDetection_shared ==
    /\ pc = "failover"
    /\ LET r == FailoverCheck(line.pool, last_failover_pool, last_failover_alert, now)
       IN  /\ Attempt(r.alerts)
           /\ last_failover_alert' = r.last_failover_alert
           /\ last_error_rate_alert' =
                 IF r.alerts = <<>> THEN last_error_rate_alert ELSE r.last_failover_alert
           /\ last_failover_pool' = r.last_failover_pool
    /\ pc' = "error_rate"
    /\ UNCHANGED <<config, request_window, error_rate_breached,
                   maintenance_mode_prev, maintenance_file, line, maintenance_mode_current,
                   now, error_count, error_rate, pushed>>

\* lines 152-176
FailoverDetection ==
    /\ pc = "failover"
    /\ LET r == FailoverCheck(line.pool, last_failover_pool, last_failover_alert, now)
       IN  /\ Attempt(r.alerts)
           /\ last_failover_alert' = r.last_failover_alert
           /\ last_failover_pool' = r.last_failover_pool
    /\ pc' = "error_rate"
    /\ UNCHANGED <<config, request_window, last_error_rate_alert, error_rate_breached,
                   maintenance_mode_prev, maintenance_file, line, maintenance_mode_current,
                   now, error_count, error_rate, pushed>>

\* mutant: the rate is evaluated before the window is full
ErrorRateDetection_cold ==
    /\ pc = "error_rate"
    /\ LET count == ErrorCount(request_window)
           rate == ErrorRate(count, WINDOW_SIZE)
           r == ErrorRateCheck(rate, ERROR_RATE_THRESHOLD, error_rate_breached,
                               last_error_rate_alert, now)
       IN  /\ error_count' = count
           /\ error_rate' = rate
           /\ Attempt(r.alerts)
           /\ last_error_rate_alert' = r.last_error_rate_alert
           /\ error_rate_breached' = r.error_rate_breached
    /\ pc' = "tail"
    /\ UNCHANGED <<config, request_window, last_failover_pool, last_failover_alert,
                   maintenance_mode_prev, maintenance_file, line, maintenance_mode_current,
                   now, pushed>>

\* mutant: an alert dropped under maintenance leaves the timer and the latch
ErrorRateDetection_gated ==
    /\ pc = "error_rate"
    /\ IF Len(request_window) = WINDOW_SIZE
       THEN LET count == ErrorCount(request_window)
                rate == ErrorRate(count, WINDOW_SIZE)
                r == ErrorRateCheck(rate, ERROR_RATE_THRESHOLD, error_rate_breached,
                                    last_error_rate_alert, now)
            IN  /\ error_count' = count
                /\ error_rate' = rate
                /\ Attempt(r.alerts)
                /\ IF maintenance_file
                   THEN UNCHANGED <<last_error_rate_alert, error_rate_breached>>
                   ELSE /\ last_error_rate_alert' = r.last_error_rate_alert
                        /\ error_rate_breached' = r.error_rate_breached
       ELSE /\ NoAlert
            /\ UNCHANGED <<error_count, error_rate, last_error_rate_alert, error_rate_breached>>
    /\ pc' = "tail"
    /\ UNCHANGED <<config, request_window, last_failover_pool, last_failover_alert,
                   maintenance_mode_prev, maintenance_file, line, maintenance_mode_current,
                   now, pushed>>

\* lines 179-207
ErrorRateDetection ==
    /\ pc = "error_rate"
    /\ IF Len(request_window) = WINDOW_SIZE
       THEN LET count == ErrorCount(request_window)
                rate == ErrorRate(count, WINDOW_SIZE)
                r == ErrorRateCheck(rate, ERROR_RATE_THRESHOLD, error_rate_breached,
                                    last_error_rate_alert, now)
            IN  /\ error_count' = count
                /\ error_rate' = rate
                /\ Attempt(r.alerts)
                /\ last_error_rate_alert' = r.last_error_rate_alert
                /\ error_rate_breached' = r.error_rate_breached
       ELSE /\ NoAlert
            /\ UNCHANGED <<error_count, error_rate, last_error_rate_alert, error_rate_breached>>
    /\ pc' = "tail"
    /\ UNCHANGED <<config, request_window, last_failover_pool, last_failover_alert,
                   maintenance_mode_prev, maintenance_file, line, maintenance_mode_current,
                   now, pushed>>

\* an operator creates or removes the marker file, at any moment
ToggleMaintenanceFile ==
    /\ maintenance_file' = ~maintenance_file
    /\ UNCHANGED <<config, detection, locals, output, pushed>>

Next ==
    \/ Startup
    \/ ProbeMaintenance
    \/ MaintenanceMode
    \/ FailoverDetection
    \/ ErrorRateDetection
    \/ ToggleMaintenanceFile

Spec == Init /\ [][Next]_vars

\* ====== the window alone: pushes into deque(maxlen=WINDOW_SIZE) ======
MaxPushes == 6

InitWindow ==
    /\ WINDOW_SIZE \in 1..EnvWindowSize
    /\ ERROR_RATE_THRESHOLD = EnvErrorRateThreshold
    /\ maintenance_file = FALSE
    /\ pc = "push"
    /\ line = NoMatch
    /\ request_window = <<>>
    /\ InitState

\* line 148: request_window.append(upstream_status)
Push ==
    /\ pc = "push"
    /\ Len(pushed) < MaxPushes
    /\ \E st \in Statuses :
          /\ request_window' = DequeAppend(request_window, WINDOW_SIZE, st)
          /\ pushed' = Append(pushed, st)
    /\ UNCHANGED <<config, last_failover_pool, last_failover_alert, last_error_rate_alert,
                   error_rate_breached, maintenance_mode_prev, maintenance_file, locals, output>>

SpecWindow == InitWindow /\ [][Push]_vars

\* ====== the error-rate evaluation alone, over several configurations ======
\* <<WINDOW_SIZE, ERROR_RATE_THRESHOLD>> as the environment may set them
RateConfigs == {<<4, 25>>, <<20, 55>>, <<25, 28>>}

\* a full window with k codes `err` followed by codes `ok`
Fill(size, k, err, ok) == [i \in 1..size |-> IF i <= k THEN err ELSE ok]

\* main about to evaluate its first full window: every line so far came
\* from ACTIVE_POOL at clock reading 0 with the marker absent
InitRate ==
    /\ \E c \in RateConfigs :
          /\ WINDOW_SIZE = c[1]
          /\ ERROR_RATE_THRESHOLD = c[2]
          /\ \E k \in 0..c[1], err \in {500, 599}, ok \in {200, 499, 600} :
                request_window = Fill(c[1], k, err, ok)
    /\ line = [matched |-> TRUE, pool |-> ACTIVE_POOL,
               upstream_status |-> request_window[Len(request_window)]]
    /\ maintenance_file = FALSE
    /\ pc = "error_rate"
    /\ InitState

SpecRate == InitRate /\ [][ErrorRateDetection]_vars

\* a step of main, as opposed to a change of the marker file
MainStep == pc' # pc

TypeOK ==
    /\ pc \in {"start", "tail", "maintenance", "failover", "error_rate", "push"}
    /\ Len(request_window) <= WINDOW_SIZE
    /\ now \in 0..MaxClock

\* ====== PROPERTIES ======

\* C1: two alerts of the same cooldown class that reach Slack are at least
\* ALERT_COOLDOWN_SEC apart, measured between the `now` of the iterations
\* that accepted them.
C1_CooldownBetweenPosts ==
    [][\A c \in {"failover", "error_rate"} :
          (slack'[c].n > slack[c].n /\ slack[c].n > 0)
              => slack'[c].at - slack[c].at >= ALERT_COOLDOWN_SEC]_vars

\* a second post has been made in both cooldown classes
C1_Witness == slack["failover"].n >= 2 /\ slack["error_rate"].n >= 2

\* C2: a step of main taken while the marker file exists makes no POST and
\* Slack receives nothing from it, whatever alert the step attempts.
C2_NoPostWhileMaintenance ==
    [][(MainStep /\ maintenance_file) => (sent' = <<>> /\ slack' = slack)]_vars

\* an error-rate breach was attempted under maintenance and dropped
C2_Witness ==
    /\ maintenance_file
    /\ attempted # <<>>
    /\ attempted[1].title = "High Error Rate Detected"
    /\ sent = <<>>
    /\ slack["error_rate"].n = 0

\* the title that must follow `title` in an alternating error-rate sequence
\* that starts with a breach
Alternate(title) ==
    IF title = "High Error Rate Detected" THEN "Error Rate Recovered"
    ELSE "High Error Rate Detected"

\* C3 (as stated): the error-rate alerts that reach Slack alternate between
\* breach and recovery, starting with a breach.
C3_PostsAlternate ==
    [][slack'["error_rate"].n > slack["error_rate"].n
          => slack'["error_rate"].title = Alternate(slack["error_rate"].title)]_vars

\* C3 (amended): the error-rate alerts handed to send_slack_alert alternate
\* between breach and recovery, starting with a breach, whether or not the
\* maintenance gate then drops them.
C3_AttemptsAlternate ==
    [][(MainStep /\ attempted' # <<>>
            /\ CooldownClass(attempted'[1].title) = "error_rate")
          => attempted'[1].title = Alternate(tried["error_rate"])]_vars

\* the first error-rate alert Slack received is a recovery: the breach before
\* it was attempted and dropped
C3_Witness ==
    /\ slack["error_rate"].n = 1
    /\ slack["error_rate"].title = "Error Rate Recovered"
    /\ tried["error_rate"] = "Error Rate Recovered"
    /\ sent # <<>>

\* C4 (as stated): with the remembered pool away from ACTIVE_POOL and the
\* failover cooldown elapsed, a line from ACTIVE_POOL raises the
\* 'Failover Recovery' alert and the remembered pool becomes ACTIVE_POOL.
C4_RecoveryAlertRaised ==
    [][(pc = "failover" /\ MainStep
            /\ last_failover_pool # ACTIVE_POOL /\ line.pool = ACTIVE_POOL
            /\ now - last_failover_alert >= ALERT_COOLDOWN_SEC)
          => (/\ attempted' # <<>>
              /\ attempted'[1].title = "Failover Recovery"
              /\ last_failover_pool' = ACTIVE_POOL)]_vars

\* C5: once the failover check has run on a matched line the remembered pool
\* is the pool of that line; a pool change met before the cooldown has
\* elapsed attempts no alert and leaves the timer, yet advances the pool.
C5_RememberedPoolAdvances ==
    /\ [](pc = "error_rate" => last_failover_pool = line.pool)
    /\ [][(pc = "failover" /\ MainStep /\ line.pool # last_failover_pool
              /\ now - last_failover_alert < ALERT_COOLDOWN_SEC)
            => (/\ attempted' = <<>>
                /\ sent' = <<>>
                /\ last_failover_alert' = last_failover_alert
                /\ last_failover_pool' = line.pool)]_vars

\* the one failover post named another pool than the one now remembered, and
\* the pool moved on within the cooldown without an alert
C5_Witness ==
    /\ pc = "error_rate"
    /\ attempted = <<>>
    /\ slack["failover"].n = 1
    /\ slack["failover"].at = last_failover_alert
    /\ now - last_failover_alert < ALERT_COOLDOWN_SEC
    /\ slack["failover"].pool # last_failover_pool
    /\ last_failover_pool = line.pool

\* C6: the failover check attempts the 'FAILOVER DETECTED' alert exactly when
\* the line's pool differs from the remembered pool and the cooldown has
\* elapsed, and the alert names remembered pool -> observed pool; the first
\* matched line, if from ACTIVE_POOL, attempts nothing.
C6_FailoverAlertIff ==
    /\ []((pc = "error_rate" /\ Len(request_window) = 1 /\ WINDOW_SIZE > 1
              /\ line.pool = ACTIVE_POOL) => attempted = <<>>)
    /\ [][(pc = "failover" /\ MainStep)
            => IF line.pool # last_failover_pool
                  /\ now - last_failover_alert >= ALERT_COOLDOWN_SEC
               THEN attempted' = <<FailoverAlert(last_failover_pool, line.pool)>>
               ELSE \A i \in 1..Len(attempted') :
                       attempted'[i].title # "FAILOVER DETECTED"]_vars

\* the second matched line is the first from another pool than ACTIVE_POOL
C6_Witness ==
    /\ pc = "error_rate"
    /\ Len(request_window) = 2
    /\ attempted = <<FailoverAlert(ACTIVE_POOL, "green")>>
    /\ last_failover_pool = "green"

\* C7: on a full window, a rate above the threshold with the latch false and
\* the error-rate cooldown elapsed attempts 'High Error Rate Detected', sets
\* the latch and sets the timer to now; a rate not above the threshold
\* attempts no breach alert.
C7_BreachRule ==
    [][(pc = "error_rate" /\ MainStep /\ Len(request_window) = WINDOW_SIZE)
          => LET rate == ErrorRate(ErrorCount(request_window), WINDOW_SIZE)
                 above == FloatGreater(rate, Float(ERROR_RATE_THRESHOLD))
             IN  /\ (above /\ ~error_rate_breached
                        /\ now - last_error_rate_alert >= ALERT_COOLDOWN_SEC)
                       => (/\ attempted' = <<HighErrorRateAlert(rate)>>
                           /\ error_rate_breached'
                           /\ last_error_rate_alert' = now)
                 /\ ~above => \A i \in 1..Len(attempted') :
                                 attempted'[i].title # "High Error Rate Detected"]_vars

\* the window is [500,500,200,200] at rate 50, above the threshold 25: the
\* breach alert has been posted once and the latch is set
C7_Witness ==
    /\ pc = "tail"
    /\ request_window = <<500, 500, 200, 200>>
    /\ error_rate = Float(50)
    /\ ERROR_RATE_THRESHOLD = 25
    /\ error_rate_breached
    /\ slack["error_rate"].n = 1
    /\ slack["error_rate"].title = "High Error Rate Detected"

\* C8: on a full window, a rate at or below the threshold with the latch
\* true and the error-rate cooldown elapsed attempts 'Error Rate Recovered',
\* clears the latch and sets the timer to now; one evaluation attempts at
\* most one alert, and no recovery while the rate is above the threshold.
C8_RecoveryRule ==
    [][(pc = "error_rate" /\ MainStep /\ Len(request_window) = WINDOW_SIZE)
          => LET rate == ErrorRate(ErrorCount(request_window), WINDOW_SIZE)
                 above == FloatGreater(rate, Float(ERROR_RATE_THRESHOLD))
             IN  /\ (~above /\ error_rate_breached
                        /\ now - last_error_rate_alert >= ALERT_COOLDOWN_SEC)
                       => (/\ attempted' = <<ErrorRateRecoveredAlert(rate)>>
                           /\ ~error_rate_breached'
                           /\ last_error_rate_alert' = now)
                 /\ Len(attempted') <= 1
                 /\ above => \A i \in 1..Len(attempted') :
                                attempted'[i].title # "Error Rate Recovered"]_vars

\* a recovery was attempted at a rate equal to the threshold
C8_Witness ==
    /\ pc = "tail"
    /\ attempted = <<ErrorRateRecoveredAlert(Float(ERROR_RATE_THRESHOLD))>>
    /\ ~error_rate_breached
    /\ last_error_rate_alert = now

\* the last n entries of a sequence
LastN(seq, n) == SubSeq(seq, Len(seq) - n + 1, Len(seq))

\* C9: the window never holds more than WINDOW_SIZE codes and always equals
\* the last min(n, WINDOW_SIZE) of the n codes pushed so far, in order.
C9_WindowIsTail ==
    /\ Len(request_window) <= WINDOW_SIZE
    /\ request_window =
          LastN(pushed, IF Len(pushed) < WINDOW_SIZE THEN Len(pushed) ELSE WINDOW_SIZE)

\* a full window of the configured size has lost at least two codes
C9_Witness ==
    /\ WINDOW_SIZE = EnvWindowSize
    /\ Len(pushed) >= WINDOW_SIZE + 2
    /\ Len(request_window) = WINDOW_SIZE
    /\ pushed[1] # pushed[Len(pushed)]

\* C10 (as stated): an evaluation counts the codes in [500,599] and compares
\* the rate with the threshold as 100 * k > ERROR_RATE_THRESHOLD * WINDOW_SIZE
\* would, without rounding.
C10_ExactComparison ==
    (pc = "tail" /\ Len(request_window) = WINDOW_SIZE)
        => /\ error_count = ErrorCount(request_window)
           /\ FloatGreater(error_rate, Float(ERROR_RATE_THRESHOLD))
                 <=> (100 * error_count > ERROR_RATE_THRESHOLD * WINDOW_SIZE)

\* C11: while the window holds fewer than WINDOW_SIZE codes no error-rate
\* alert has been attempted, the latch is false and the error-rate timer is
\* datetime.min; an error-rate step on a window that is not full attempts
\* nothing and evaluates nothing.
C11_ColdStart ==
    /\ [](Len(request_window) < WINDOW_SIZE
            => /\ tried["error_rate"] = ""
               /\ slack["error_rate"].n = 0
               /\ ~error_rate_breached
               /\ last_error_rate_alert = DatetimeMin
               /\ error_count = 0
               /\ error_rate = FloatZero)
    /\ [][(pc = "error_rate" /\ MainStep /\ Len(request_window) # WINDOW_SIZE)
            => /\ attempted' = <<>>
               /\ UNCHANGED <<error_count, error_rate, error_rate_breached,
                              last_error_rate_alert>>]_vars

\* one line short of a full window, every code so far a 5xx, and the
\* error-rate step has run without an alert
C11_Witness ==
    /\ pc = "tail"
    /\ line.matched
    /\ Len(request_window) = WINDOW_SIZE - 1
    /\ ErrorCount(request_window) = Len(request_window)
    /\ tried["error_rate"] = ""
    /\ attempted = <<>>

\* C12 (as stated): the toggle alert raised when the loop saw the marker
\* appear never reaches Slack and the one raised when the loop saw it
\* disappear always does, whenever the marker is toggled.
C12_ToggleAsymmetry ==
    [][(pc = "maintenance" /\ MainStep
           /\ maintenance_mode_current # maintenance_mode_prev)
          => IF maintenance_mode_current THEN sent' = <<>> ELSE sent' # <<>>]_vars

\* C13 (as stated): the iteration of an unmatched line changes no state
\* variable, the remembered maintenance state included, and attempts no alert.
C13_UnmatchedNoEffect ==
    [][(pc = "maintenance" /\ MainStep /\ ~line'.matched)
          => /\ UNCHANGED detection
             /\ attempted' = <<>>]_vars

\* C13 (amended): the iteration of an unmatched line leaves the window, the
\* remembered pool, both timers, the latch and the clock reading alone and
\* attempts no failover or error-rate alert; the toggle handling still runs,
\* so a 'Maintenance Mode' alert may be attempted and the remembered
\* maintenance state becomes the probed one.
C13_UnmatchedFrame ==
    [][(pc = "maintenance" /\ MainStep /\ ~line'.matched)
          => /\ pc' = "tail"
             /\ UNCHANGED <<request_window, last_failover_pool, last_failover_alert,
                            last_error_rate_alert, error_rate_breached, now,
                            error_count, error_rate, tried, slack>>
             /\ \A i \in 1..Len(attempted') : attempted'[i].title = "Maintenance Mode"
             /\ maintenance_mode_prev' = maintenance_mode_current]_vars

\* an unmatched line, arriving after matched ones, raised a toggle alert
C13_Witness ==
    /\ pc = "tail"
    /\ ~line.matched
    /\ attempted # <<>>
    /\ attempted[1].title = "Maintenance Mode"
    /\ maintenance_mode_prev
    /\ request_window # <<>>

\* C14: an attempt is handed to Slack at most once, and whatever the POST
\* returns the step ends as the attempt alone dictates: a failover attempt
\* sets the failover timer to now and the remembered pool to the line's, an
\* error-rate attempt sets its timer to now and the latch to "breach", a
\* toggle attempt records the probed state, and the loop moves on.
C14_FailedDispatchIgnored ==
    [][MainStep
          => /\ Len(sent') <= 1
             /\ Len(sent') <= Len(attempted')
             /\ \A i \in 1..Len(sent') : sent'[i].alert = attempted'[i]
             /\ (pc = "maintenance" /\ attempted' # <<>>)
                   => /\ maintenance_mode_prev' = maintenance_mode_current
                      /\ pc' = IF line'.matched THEN "failover" ELSE "tail"
                      /\ UNCHANGED <<last_failover_pool, last_failover_alert,
                                     last_error_rate_alert, error_rate_breached>>
             /\ (pc = "failover" /\ attempted' # <<>>)
                   => /\ last_failover_alert' = now
                      /\ last_failover_pool' = line.pool
                      /\ pc' = "error_rate"
                      /\ UNCHANGED <<request_window, last_error_rate_alert,
                                     error_rate_breached, maintenance_mode_prev>>
             /\ (pc = "error_rate" /\ attempted' # <<>>)
                   => /\ last_error_rate_alert' = now
                      /\ error_rate_breached'
                            = (attempted'[1].title = "High Error Rate Detected")
                      /\ pc' = "tail"
                      /\ UNCHANGED <<request_window, last_failover_pool,
                                     last_failover_alert, maintenance_mode_prev>>]_vars

\* the POST of a failover alert failed; the timer and the remembered pool
\* are updated and the loop is at the error-rate check
C14_Witness ==
    /\ pc = "error_rate"
    /\ sent # <<>>
    /\ ~sent[1].ok
    /\ attempted[1].title = "FAILOVER DETECTED"
    /\ last_failover_alert = now
    /\ last_failover_pool = line.pool

\* C15: an evaluation made before the error-rate cooldown has elapsed leaves
\* the latch and the timer alone and attempts nothing; one made on a full
\* window after it has elapsed flips the latch when the rate asks for it; the
\* timer changes exactly when the latch flips, to now, and a flip needs
\* ALERT_COOLDOWN_SEC since the timer, hence since the previous flip.
C15_FlipNeedsCooldown ==
    /\ [][(pc = "error_rate" /\ MainStep
              /\ now - last_error_rate_alert < ALERT_COOLDOWN_SEC)
            => /\ UNCHANGED <<error_rate_breached, last_error_rate_alert>>
               /\ attempted' = <<>>]_vars
    /\ [][(pc = "error_rate" /\ MainStep /\ Len(request_window) = WINDOW_SIZE
              /\ now - last_error_rate_alert >= ALERT_COOLDOWN_SEC)
            => LET rate == ErrorRate(ErrorCount(request_window), WINDOW_SIZE)
                   above == FloatGreater(rate, Float(ERROR_RATE_THRESHOLD))
               IN  error_rate_breached' = above]_vars
    /\ [][/\ (error_rate_breached' # error_rate_breached)
                <=> (last_error_rate_alert' # last_error_rate_alert)
          /\ (error_rate_breached' # error_rate_breached)
                => /\ now - last_error_rate_alert >= ALERT_COOLDOWN_SEC
                   /\ last_error_rate_alert' = now]_vars

\* a recovery is due but deferred: the latch is still set after an
\* evaluation of a rate not above the threshold, inside the cooldown
C15_Witness ==
    /\ pc = "tail"
    /\ line.matched
    /\ Len(request_window) = WINDOW_SIZE
    /\ error_count = ErrorCount(request_window)
    /\ ~FloatGreater(error_rate, Float(ERROR_RATE_THRESHOLD))
    /\ error_rate_breached
    /\ now - last_error_rate_alert < ALERT_COOLDOWN_SEC
    /\ attempted = <<>>

\* C16: a step that attempts 'High Error Rate Detected' takes the latch from
\* false to true, one that attempts 'Error Rate Recovered' takes it from true
\* to false, and the latch changes only in a step of the loop that attempts
\* one of the two.
C16_LatchFollowsAttempt ==
    /\ [][MainStep
            => \A i \in 1..Len(attempted') :
                  /\ attempted'[i].title = "High Error Rate Detected"
                        => (~error_rate_breached /\ error_rate_breached')
                  /\ attempted'[i].title = "Error Rate Recovered"
                        => (error_rate_breached /\ ~error_rate_breached')]_vars
    /\ [][(error_rate_breached' # error_rate_breached)
            => /\ MainStep
               /\ attempted' # <<>>
               /\ CooldownClass(attempted'[1].title) = "error_rate"]_vars

\* a recovery was attempted and dropped under maintenance; the latch is clear
C16_Witness ==
    /\ pc = "tail"
    /\ attempted # <<>>
    /\ attempted[1].title = "Error Rate Recovered"
    /\ sent = <<>>
    /\ ~error_rate_breached

\* C17 (as stated): every alert of an iteration is gated by the probe the
\* loop made for that line: it reaches Slack exactly when that probe saw the
\* marker absent, whatever happens to the marker afterwards.
C17_GatedByLoopProbe ==
    [][(MainStep /\ pc \in {"maintenance", "failover", "error_rate"}
           /\ attempted' # <<>>)
          => (sent' = <<>>) = maintenance_mode_current]_vars

\* C18: the probe records the marker and attempts nothing; the next step
\* attempts exactly the toggle alert of the probed state ("Enabled" when
\* present, "Disabled" when absent) when it differs from the remembered one,
\* whatever the timers hold and whether or not the line matches, and nothing
\* otherwise, and remembers the probed state; between iterations the
\* remembered state is the last probed one, so a marker that is back to it at
\* the next probe raises nothing.
C18_ToggleAlert ==
    /\ [][(pc = "tail" /\ MainStep)
            => /\ maintenance_mode_current' = maintenance_file
               /\ attempted' = <<>>
               /\ UNCHANGED maintenance_mode_prev]_vars
    /\ [][(pc = "maintenance" /\ MainStep)
            => /\ maintenance_mode_prev' = maintenance_mode_current
               /\ IF maintenance_mode_current # maintenance_mode_prev
                  THEN /\ Len(attempted') = 1
                       /\ attempted'[1].title = "Maintenance Mode"
                       /\ attempted'[1].message
                             = <<IF maintenance_mode_current THEN "Enabled"
                                 ELSE "Disabled">>
                  ELSE attempted' = <<>>]_vars
    /\ [](pc \in {"tail", "failover", "error_rate"}
            => maintenance_mode_prev = maintenance_mode_current)

\* an unmatched line raised the "Disabled" alert inside both cooldowns, and
\* it was posted
C18_Witness ==
    /\ pc = "tail"
    /\ ~line.matched
    /\ attempted = <<MaintenanceAlert(FALSE)>>
    /\ sent # <<>>
    /\ ~maintenance_mode_prev
    /\ now - last_failover_alert < ALERT_COOLDOWN_SEC
    /\ now - last_error_rate_alert < ALERT_COOLDOWN_SEC

\* C19: the failover step leaves the latch and the error-rate timer alone,
\* and everything else the error-rate check reads; the error-rate step leaves
\* the remembered pool and the failover timer alone, and everything else the
\* failover check reads: neither check reads what the other writes.
C19_DisjointState ==
    /\ [][(pc = "failover" /\ MainStep)
            => UNCHANGED <<error_rate_breached, last_error_rate_alert,
                           request_window, now, config>>]_vars
    /\ [][(pc = "error_rate" /\ MainStep)
            => UNCHANGED <<last_failover_pool, last_failover_alert,
                           line, now>>]_vars

\* a failover alert and a breach alert were both raised at one clock reading
C19_Witness ==
    /\ pc = "tail"
    /\ attempted # <<>>
    /\ attempted[1].title = "High Error Rate Detected"
    /\ tried["failover"] = "FAILOVER DETECTED"
    /\ last_failover_pool = line.pool
    /\ last_failover_alert = now
    /\ last_error_rate_alert = now

\* C20: an attempt dropped by the maintenance gate still sets the class timer
\* to now (and the remembered pool, or the latch); a post of a class needs
\* ALERT_COOLDOWN_SEC since the class timer, hence since the last attempt,
\* dropped or not; and no breach is attempted while the latch is set.
C20_SuppressedAttemptCounts ==
    /\ [][(MainStep /\ pc = "failover" /\ attempted' # <<>> /\ sent' = <<>>)
            => /\ last_failover_alert' = now
               /\ last_failover_pool' = line.pool]_vars
    /\ [][(MainStep /\ pc = "error_rate" /\ attempted' # <<>> /\ sent' = <<>>)
            => /\ last_error_rate_alert' = now
               /\ error_rate_breached' = ~error_rate_breached]_vars
    /\ [][/\ slack'["failover"].n > slack["failover"].n
                => now - last_failover_alert >= ALERT_COOLDOWN_SEC
          /\ slack'["error_rate"].n > slack["error_rate"].n
                => now - last_error_rate_alert >= ALERT_COOLDOWN_SEC]_vars
    /\ [][(MainStep /\ error_rate_breached)
            => \A i \in 1..Len(attempted') :
                  attempted'[i].title # "High Error Rate Detected"]_vars

\* the breach was dropped under maintenance; the marker is gone, the cooldown
\* has elapsed, the rate is still above the threshold, and nothing is raised
C20_Witness ==
    /\ pc = "tail"
    /\ ~maintenance_file
    /\ ~maintenance_mode_current
    /\ line.matched
    /\ error_rate_breached
    /\ tried["error_rate"] = "High Error Rate Detected"
    /\ slack["error_rate"].n = 0
    /\ FloatGreater(error_rate, Float(ERROR_RATE_THRESHOLD))
    /\ now - last_error_rate_alert >= ALERT_COOLDOWN_SEC
    /\ attempted = <<>>

====
